---- MODULE Spec2Model ----
(***************************************************************************)
(* GeoMagCpp: the IGRF field engine (GeoMag/src/Model.hpp, Igrf.hpp).      *)
(*                                                                         *)
(* Spec      one Igrf instance, queries issued one after the other.       *)
(* SpecConc  two queries running concurrently (shared or own instance).    *)
(*                                                                         *)
(* Numbers.  A double is modelled as an exact rational [num, den] with     *)
(* den > 0; the IEEE results of a division by zero are den = 0:            *)
(* +inf = 1/0, -inf = -1/0, NaN = 0/0.  Rounding is not modelled.          *)
(* Epochs.   A DateTime is an integer count of ticks, TicksPerYear ticks   *)
(* to a calendar year, counted from 1 January of a base year.              *)
(***************************************************************************)
EXTENDS Integers, Sequences, FiniteSets, TLC

\* ------------------------------------------------------------------ bounds
MaxLen == 2
MaxTick == 3
TicksPerYear == 2
\* Model::max_degree is 13 in the source; the model carries the degrees
\* 1..max_degree of the expansion
max_degree == 2
\* std::sqrt delivers irrational roots to the nearest lower multiple of
\* 1/SqrtDen
SqrtDen == 4
\* the concurrent calls are interleaved coefficient by coefficient over the
\* first ConcLen coefficients; the rest of each loop is taken in one step
ConcLen == 4

\* ------------------------------------------------------- program constants
\* the array without the slot behind the last packed coefficient
max_coefficient_size_packed == max_degree * (max_degree + 2)

max_coefficient_size == max_degree * (max_degree + 2) + 1

\* ---------------------------------------------------------------- doubles
Abs(x) == IF x < 0 THEN -x ELSE x
Sign(x) == IF x < 0 THEN -1 ELSE IF x > 0 THEN 1 ELSE 0

RECURSIVE Gcd(_, _)
Gcd(a, b) == IF b = 0 THEN a ELSE Gcd(b, a % b)

Rat(n, d) ==
    IF d = 0 THEN [num |-> Sign(n), den |-> 0]
    ELSE LET g == Gcd(Abs(n), Abs(d))
         IN  [num |-> (Sign(d) * n) \div g, den |-> Abs(d) \div g]

RInt(n) == [num |-> n, den |-> 1]
RNaN == [num |-> 0, den |-> 0]

\* products and sums of finite values cancel common factors first, so that
\* the intermediate integers stay small
RMul(a, b) ==
    IF a.den = 0 \/ b.den = 0
    THEN Rat(a.num * b.num, a.den * b.den)
    ELSE LET g1 == Gcd(Abs(a.num), b.den)
             g2 == Gcd(Abs(b.num), a.den)
         IN  Rat((a.num \div g1) * (b.num \div g2), (a.den \div g2) * (b.den \div g1))
RDiv(a, b) ==
    IF a.den = 0 \/ b.den = 0 \/ b.num = 0
    THEN Rat(a.num * b.den, a.den * b.num)
    ELSE RMul(a, [num |-> Sign(b.num) * b.den, den |-> Abs(b.num)])
RNeg(a) == [num |-> -a.num, den |-> a.den]
RAdd(a, b) ==
    IF a.den = 0 /\ b.den = 0
    THEN (IF a.num = b.num THEN a ELSE RNaN)
    ELSE IF a.den = 0 \/ b.den = 0
    THEN Rat(a.num * b.den + b.num * a.den, a.den * b.den)
    ELSE LET g == Gcd(a.den, b.den)
         IN  Rat(a.num * (b.den \div g) + b.num * (a.den \div g), (a.den \div g) * b.den)
RSub(a, b) == RAdd(a, RNeg(b))

IsFinite(a) == a.den # 0
IsZero(a) == a.den # 0 /\ a.num = 0

\* the largest k in lo..hi with k*k <= x
RECURSIVE isqrt(_, _, _)
isqrt(x, lo, hi) ==
    IF lo >= hi THEN lo
    ELSE LET mid == (lo + hi + 1) \div 2
         IN  IF mid * mid <= x THEN isqrt(x, mid, hi) ELSE isqrt(x, lo, mid - 1)
IntSqrt(x) == isqrt(x, 0, IF x < 46340 THEN x ELSE 46340)

\* std::sqrt: exact where the root is a ratio of integers, otherwise rounded
\* down to a multiple of 1/SqrtDen; NaN below zero
RSqrt(a) ==
    IF a.den = 0 THEN (IF a.num = 1 THEN a ELSE RNaN)
    ELSE IF a.num < 0 THEN RNaN
    ELSE LET rn == IntSqrt(a.num)
             rd == IntSqrt(a.den)
         IN  IF rn * rn = a.num /\ rd * rd = a.den
             THEN Rat(rn, rd)
             ELSE Rat(IntSqrt((a.num * SqrtDen * SqrtDen) \div a.den), SqrtDen)

\* the double a quotient or product of rounded roots is stored as: kept as it
\* is where its denominator is within the grid, otherwise rounded to the
\* nearest multiple of 1/SqrtDen
RRound(a) ==
    IF a.den <= SqrtDen THEN a
    ELSE Rat((2 * a.num * SqrtDen + a.den) \div (2 * a.den), SqrtDen)

\* an angle is kept as the point of the unit circle it names, which is what
\* std::cos and std::sin of its radians() deliver
Angle(c, s) == [cos |-> c, sin |-> s]
\* std::cos(m * phi) and std::sin(m * phi)
RECURSIVE CosMul(_, _)
RECURSIVE SinMul(_, _)
CosMul(m, phi) ==
    IF m = 0 THEN RInt(1)
    ELSE RSub(RMul(CosMul(m - 1, phi), phi.cos), RMul(SinMul(m - 1, phi), phi.sin))
SinMul(m, phi) ==
    IF m = 0 THEN RInt(0)
    ELSE RAdd(RMul(SinMul(m - 1, phi), phi.cos), RMul(CosMul(m - 1, phi), phi.sin))

\* --------------------------------------------------------------- DateTime
Epochs == 0..MaxTick
year(e) == e \div TicksPerYear
fractionalYears(e) == Rat(e, TicksPerYear)

\* ------------------------------------------------------------------ Model
ModelType == {"Unknown", "Dgrf", "Igrf", "Sv", "Interpolated", "Extrapolated"}
CoefIdx == 0..(max_coefficient_size - 1)

Model(dt, t, coeff) == [epoch |-> dt, type |-> t, coefficients |-> coeff]

DefaultEpoch == 0
DefaultModel == Model(DefaultEpoch, "Unknown", [k \in CoefIdx |-> RInt(0)])

TypeIdx(t) == CASE t = "Dgrf" -> 0 [] t = "Igrf" -> 1 [] t = "Sv" -> 2 [] OTHER -> 3

\* sample coefficient data of a snapshot handed to ModelSet(models)
SampleCoefficients(e, t) ==
    [k \in CoefIdx |-> RInt((e * e + 1) * (k + 1) - 7 * TypeIdx(t))]

\* definitive snapshots for the older epochs, provisional and
\* secular-variation ones for the newest, as in the published tables
FieldTypes(e) == IF e < MaxTick - 1 THEN {"Dgrf"} ELSE {"Igrf", "Sv"}
SampleModels ==
    UNION {{Model(e, t, SampleCoefficients(e, t)) : t \in FieldTypes(e)} : e \in Epochs}

RECURSIVE SeqsUpTo(_, _)
SeqsUpTo(S, n) ==
    IF n = 0 THEN {<<>>}
    ELSE LET shorter == SeqsUpTo(S, n - 1)
         IN  shorter \cup {Append(q, x) : q \in {r \in shorter : Len(r) = n - 1}, x \in S}

Tables == SeqsUpTo(SampleModels, MaxLen)

\* what a read of the Model-sized memory in front of the vector's buffer
\* can deliver
GarbageModels ==
    {Model(e, t, [k \in CoefIdx |-> RInt(100 + k)]) : e \in {0, MaxTick}, t \in {"Unknown"}}

\* --------------------------------------------------------------- ModelSet
\* lower_bound with the comparison m.epoch <= dt: the first entry later
\* than dt
RECURSIVE lower_bound_le(_, _, _, _)
lower_bound_le(models, first, len, dt) ==
    IF len = 0 THEN first
    ELSE LET half == len \div 2
             mid == first + half
         IN  IF models[mid + 1].epoch <= dt
             THEN lower_bound_le(models, mid + 1, len - half - 1, dt)
             ELSE lower_bound_le(models, first, half, dt)

\* std::lower_bound(first, first + len, dt, m.epoch < dt): offset of the
\* iterator it returns (0 = begin, Len(models) = end)
RECURSIVE lower_bound(_, _, _, _)
lower_bound(models, first, len, dt) ==
    IF len = 0 THEN first
    ELSE LET half == len \div 2
             mid == first + half
         IN  IF models[mid + 1].epoch < dt
             THEN lower_bound(models, mid + 1, len - half - 1, dt)
             ELSE lower_bound(models, first, half, dt)

\* select that extrapolates from the last pair when lower_bound returns end
select_past_end(models, dt, before_begin) ==
    IF Len(models) = 0
    THEN [status |-> "EmptyTable", it |-> 0, last |-> DefaultModel, next |-> DefaultModel]
    ELSE LET found == lower_bound(models, 0, Len(models), dt)
             it == IF found = Len(models) THEN found - 1 ELSE found
         IN  [status |-> "ok", it |-> it,
              last |-> IF it = 0 THEN before_begin ELSE models[it],
              next |-> models[it + 1]]

\* select without the test for an empty table
select_unguarded(models, dt, before_begin) ==
    LET it == lower_bound(models, 0, Len(models), dt)
    IN  IF it = Len(models)
        THEN [status |-> "NoBracketFound", it |-> it,
              last |-> DefaultModel, next |-> DefaultModel]
        ELSE [status |-> "ok", it |-> it,
              last |-> IF it = 0 THEN before_begin ELSE models[it],
              next |-> models[it + 1]]

\* select that assigns *it to last and *(it - 1) to next
select_swapped(models, dt, before_begin) ==
    IF Len(models) = 0
    THEN [status |-> "EmptyTable", it |-> 0, last |-> DefaultModel, next |-> DefaultModel]
    ELSE LET it == lower_bound(models, 0, Len(models), dt)
         IN  IF it = Len(models)
             THEN [status |-> "NoBracketFound", it |-> it,
                   last |-> DefaultModel, next |-> DefaultModel]
             ELSE [status |-> "ok", it |-> it,
                   last |-> models[it + 1],
                   next |-> IF it = 0 THEN before_begin ELSE models[it]]

\* ModelSet::select.  before_begin is what *(begin - 1) delivers when the
\* read does not fault.
select(models, dt, before_begin) ==
    IF Len(models) = 0
    THEN [status |-> "EmptyTable", it |-> 0, last |-> DefaultModel, next |-> DefaultModel]
    ELSE LET it == lower_bound(models, 0, Len(models), dt)
         IN  IF it = Len(models)
             THEN [status |-> "NoBracketFound", it |-> it,
                   last |-> DefaultModel, next |-> DefaultModel]
             ELSE [status |-> "ok", it |-> it,
                   last |-> IF it = 0 THEN before_begin ELSE models[it],
                   next |-> models[it + 1]]

\* ------------------------------------------------------------------- Igrf
\* a factor that leaves the vector in nanotesla
nanotesla_to_tesla_unscaled == RInt(1)

nanotesla_to_tesla == Rat(1, 1000000000)

interpolateModel(dt, last, next, model) ==
    LET diff == RDiv(RSub(fractionalYears(dt), RInt(year(last.epoch))),
                     RInt(year(next.epoch) - year(last.epoch)))
    IN  [model EXCEPT !.coefficients =
            [k \in CoefIdx |->
                RAdd(last.coefficients[k],
                     RMul(diff, RSub(next.coefficients[k], last.coefficients[k])))]]

extrapolateModel(dt, last, next, model) ==
    LET diff == RSub(fractionalYears(dt), RInt(year(last.epoch)))
    IN  [model EXCEPT !.coefficients =
            [k \in CoefIdx |->
                RAdd(last.coefficients[k], RMul(diff, next.coefficients[k]))]]

\* initializeModel that looks at the kind of the lower snapshot
initializeModel_lower(dt, models, model, before_begin) ==
    LET s == select(models, dt, before_begin)
    IN  IF s.status # "ok"
        THEN [status |-> s.status, sel |-> s, model |-> model]
        ELSE IF s.last.type # "Sv"
        THEN [status |-> "ok", sel |-> s,
              model |-> [interpolateModel(dt, s.last, s.next, model)
                            EXCEPT !.epoch = dt, !.type = "Interpolated"]]
        ELSE [status |-> "ok", sel |-> s,
              model |-> [extrapolateModel(dt, s.last, s.next, model)
                            EXCEPT !.epoch = dt, !.type = "Extrapolated"]]

\* Igrf::initializeModel: the selection and the new value of m_model
initializeModel(dt, models, model, before_begin) ==
    LET s == select(models, dt, before_begin)
    IN  IF s.status # "ok"
        THEN [status |-> s.status, sel |-> s, model |-> model]
        ELSE IF s.next.type # "Sv"
        THEN [status |-> "ok", sel |-> s,
              model |-> [interpolateModel(dt, s.last, s.next, model)
                            EXCEPT !.epoch = dt, !.type = "Interpolated"]]
        ELSE [status |-> "ok", sel |-> s,
              model |-> [extrapolateModel(dt, s.last, s.next, model)
                            EXCEPT !.epoch = dt, !.type = "Extrapolated"]]

CoordinateType == {"GeocentricSpherical", "Wgs84"}

\* Igrf::calculateMagDensity: the nanotesla vector, kept as the operands the
\* summation reads (the coefficients of the model it is given, the position)
calculateMagDensity(model, ctype, pos) ==
    IF ctype \in CoordinateType
    THEN [status |-> "ok", coefficients |-> model.coefficients, type |-> ctype, position |-> pos]
    ELSE [status |-> "InvalidCoordinateKind", coefficients |-> model.coefficients,
          type |-> ctype, position |-> pos]

\* Ecef::toGeocentricSpherical / Wgs84 passed as is
Overloads == {"Ecef", "Wgs84"}
Points == {1}
coordinateOf(overload) == IF overload = "Ecef" THEN "GeocentricSpherical" ELSE "Wgs84"

NoMag == [status |-> "none", coefficients |-> DefaultModel.coefficients,
          type |-> "None", position |-> 0]
NoSel == [status |-> "none", it |-> 0, last |-> DefaultModel, next |-> DefaultModel]
NoQuery == [epoch |-> 0, overload |-> "None", pos |-> 0]
NoReturn == [valid |-> FALSE, mag |-> NoMag, scale |-> RInt(0)]

\* -------------------------------------------------------------- the state
VARIABLES m_models, m_model, query, outcome, sel, returned

\* two concurrent calls of Igrf::operator(): how the callers share engines,
\* the working model of each engine and who wrote each coefficient of it,
\* and per call: position in the code, epoch, select's pair, loop index,
\* the coefficients the summation has read
VARIABLES c_mode, c_model, c_writer, c_pc, c_epoch, c_sel, c_k, c_read

\* the members GeoMagFlux adds to Igrf
VARIABLES m_unit, m_unit_scale, m_unit_symbol

\* one call of Igrf::calculateMagDensity taken statement by statement: its
\* parameters and locals, and the vector its second parameter refers to
VARIABLES frame, mag_density

\* ModelSet::read taken line by line: the state of the stream, the
\* coefficient index, the line read last and the writes it made
VARIABLES is_state, c_i, line, written

seqvars == <<m_model, query, outcome, sel, returned>>
concvars == <<c_mode, c_model, c_writer, c_pc, c_epoch, c_sel, c_k, c_read>>
fluxvars == <<m_unit, m_unit_scale, m_unit_symbol>>
synthvars == <<frame, mag_density>>
readvars == <<is_state, c_i, line, written>>
vars == <<m_models, m_model, query, outcome, sel, returned,
          c_mode, c_model, c_writer, c_pc, c_epoch, c_sel, c_k, c_read,
          m_unit, m_unit_scale, m_unit_symbol, frame, mag_density,
          is_state, c_i, line, written>>

Threads == {1, 2}
Engines == {1, 2}
Modes == {"shared", "own", "serialized"}

ConcIdle ==
    /\ c_model = [i \in Engines |-> DefaultModel]
    /\ c_writer = [i \in Engines |-> [k \in CoefIdx |-> 0]]
    /\ c_pc = [t \in Threads |-> "idle"]
    /\ c_epoch = [t \in Threads |-> 0]
    /\ c_sel = [t \in Threads |-> NoSel]
    /\ c_k = [t \in Threads |-> 0]
    /\ c_read = [t \in Threads |-> DefaultModel.coefficients]

\* the plain Igrf engine has no unit members
FluxIdle ==
    /\ m_unit = "None"
    /\ m_unit_scale = RInt(0)
    /\ m_unit_symbol = ""

\* no call of calculateMagDensity is being followed
NoFrame == [pc |-> "idle"]
NoVector == <<>>
SynthIdle ==
    /\ frame = NoFrame
    /\ mag_density = NoVector

\* no stream is being read
NoLine == [marker |-> "", tokens |-> <<>>]
ReadIdle ==
    /\ is_state = "none"
    /\ c_i = 0
    /\ line = NoLine
    /\ written = <<>>

Init ==
    /\ m_models \in Tables
    /\ m_model = DefaultModel
    /\ query = NoQuery
    /\ outcome = "none"
    /\ sel = NoSel
    /\ returned = NoReturn
    /\ c_mode = "serialized"
    /\ ConcIdle
    /\ FluxIdle
    /\ SynthIdle
    /\ ReadIdle

\* operator() that hands the vector of the stale working model to the caller
\* when initializeModel throws
QueryEffect_partial(dt, overload, pos, before_begin) ==
    LET init == initializeModel(dt, m_models, m_model, before_begin)
        mag == calculateMagDensity(init.model, coordinateOf(overload), pos)
    IN  /\ query' = [epoch |-> dt, overload |-> overload, pos |-> pos]
        /\ sel' = init.sel
        /\ m_model' = init.model
        /\ outcome' = IF init.status # "ok" THEN init.status ELSE mag.status
        /\ returned' = [valid |-> mag.status = "ok", mag |-> mag, scale |-> nanotesla_to_tesla]

\* the effect of Igrf::operator()(position) when it runs to its end or throws
QueryEffect(dt, overload, pos, before_begin) ==
    LET init == initializeModel(dt, m_models, m_model, before_begin)
        mag == calculateMagDensity(init.model, coordinateOf(overload), pos)
    IN  /\ query' = [epoch |-> dt, overload |-> overload, pos |-> pos]
        /\ sel' = init.sel
        /\ m_model' = init.model
        /\ outcome' = IF init.status # "ok" THEN init.status ELSE mag.status
        /\ returned' = IF init.status = "ok" /\ mag.status = "ok"
                       THEN [valid |-> TRUE, mag |-> mag, scale |-> nanotesla_to_tesla]
                       ELSE NoReturn

\* Igrf::operator(): select does not read in front of the table
Query ==
    /\ outcome # "crash"
    /\ \E dt \in Epochs, overload \in Overloads, pos \in Points :
          /\ select(m_models, dt, DefaultModel).status = "ok" => select(m_models, dt, DefaultModel).it > 0
          /\ QueryEffect(dt, overload, pos, DefaultModel)
    /\ UNCHANGED <<m_models, readvars, concvars, fluxvars, synthvars>>

\* Igrf::operator(): lower_bound returns begin and select reads *(begin - 1);
\* the read delivers whatever lies there
QueryBeforeBegin ==
    /\ outcome # "crash"
    /\ \E dt \in Epochs, overload \in Overloads, pos \in Points, g \in GarbageModels :
          /\ select(m_models, dt, g).status = "ok"
          /\ select(m_models, dt, g).it = 0
          /\ QueryEffect(dt, overload, pos, g)
    /\ UNCHANGED <<m_models, readvars, concvars, fluxvars, synthvars>>

\* ... or the read faults and the process ends
QueryFault ==
    /\ outcome # "crash"
    /\ \E dt \in Epochs, overload \in Overloads, pos \in Points :
          /\ select(m_models, dt, DefaultModel).status = "ok"
          /\ select(m_models, dt, DefaultModel).it = 0
          /\ query' = [epoch |-> dt, overload |-> overload, pos |-> pos]
          /\ sel' = [status |-> "crash", it |-> 0, last |-> DefaultModel, next |-> DefaultModel]
          /\ outcome' = "crash"
          /\ returned' = NoReturn
    /\ UNCHANGED <<m_models, readvars, m_model, concvars, fluxvars, synthvars>>

Next == Query \/ QueryBeforeBegin \/ QueryFault

Spec == Init /\ [][Next]_vars

\* ------------------------------------------------- concurrent invocation
\* a table of the shape of the compiled-in one: snapshots on 1 January,
\* the SecularVariation snapshot last
ConcTable ==
    << Model(0, "Dgrf", SampleCoefficients(0, "Dgrf")),
       Model(TicksPerYear, "Igrf", SampleCoefficients(TicksPerYear, "Igrf")),
       Model(2 * TicksPerYear, "Sv", SampleCoefficients(2 * TicksPerYear, "Sv")) >>
\* one epoch in the interpolated interval, one in the extrapolated one
ConcEpochs == {1, TicksPerYear + 1}

\* every caller on the same Igrf object
engineOf_same(mode, t) == 1

\* the engine a caller invokes: one Igrf object for both callers, or one
\* Igrf object per caller
engineOf(mode, t) == IF mode = "own" THEN t ELSE 1

\* the indices Igrf::calculateMagDensity reads: c_idx - 1 for c_idx from 1
SynthIdx == 0..(max_degree * (max_degree + 2) - 1)

\* the coefficients initializeModel computes from a selected pair
blendOf(dt, s) ==
    IF s.next.type # "Sv"
    THEN interpolateModel(dt, s.last, s.next, DefaultModel).coefficients
    ELSE extrapolateModel(dt, s.last, s.next, DefaultModel).coefficients

InitConc ==
    /\ m_models = ConcTable
    /\ m_model = DefaultModel
    /\ query = NoQuery
    /\ outcome = "none"
    /\ sel = NoSel
    /\ returned = NoReturn
    /\ c_mode \in Modes
    /\ ConcIdle
    /\ FluxIdle
    /\ SynthIdle
    /\ ReadIdle

\* operator() is entered and ModelSet::select has filled last and next; a
\* caller that serializes access waits until the other call has returned
CSelect(t) ==
    /\ c_pc[t] = "idle"
    /\ c_mode = "serialized" => \A u \in Threads \ {t} : c_pc[u] \in {"idle", "done"}
    /\ \E dt \in ConcEpochs :
          /\ c_epoch' = [c_epoch EXCEPT ![t] = dt]
          /\ c_sel' = [c_sel EXCEPT ![t] = select(m_models, dt, DefaultModel)]
    /\ c_pc' = [c_pc EXCEPT ![t] = "blend"]
    /\ c_k' = [c_k EXCEPT ![t] = 0]
    /\ UNCHANGED <<m_models, readvars, seqvars, fluxvars, synthvars, c_mode, c_model, c_writer, c_read>>

\* one iteration of std::transform in interpolateModel / extrapolateModel
\* (the iterations from ConcLen - 1 on together)
CBlend(t) ==
    /\ c_pc[t] = "blend"
    /\ LET e == engineOf(c_mode, t)
           k == c_k[t]
           ks == IF k + 1 = ConcLen THEN {j \in CoefIdx : j >= k} ELSE {k}
           blend == blendOf(c_epoch[t], c_sel[t])
       IN  /\ c_model' = [c_model EXCEPT ![e].coefficients =
                              [j \in CoefIdx |-> IF j \in ks THEN blend[j] ELSE @[j]]]
           /\ c_writer' = [c_writer EXCEPT ![e] =
                              [j \in CoefIdx |-> IF j \in ks THEN t ELSE @[j]]]
           /\ c_k' = [c_k EXCEPT ![t] = k + 1]
           /\ c_pc' = [c_pc EXCEPT ![t] = IF k + 1 = ConcLen THEN "stamp" ELSE "blend"]
    /\ UNCHANGED <<m_models, readvars, seqvars, fluxvars, synthvars, c_mode, c_epoch, c_sel, c_read>>

\* m_model.epoch = dt; m_model.type = ...
CStamp(t) ==
    /\ c_pc[t] = "stamp"
    /\ LET e == engineOf(c_mode, t)
       IN  c_model' = [c_model EXCEPT
                          ![e].epoch = c_epoch[t],
                          ![e].type = IF c_sel[t].next.type # "Sv"
                                      THEN "Interpolated" ELSE "Extrapolated"]
    /\ c_pc' = [c_pc EXCEPT ![t] = "synth"]
    /\ c_k' = [c_k EXCEPT ![t] = 0]
    /\ UNCHANGED <<m_models, readvars, seqvars, fluxvars, synthvars, c_mode, c_writer, c_epoch, c_sel, c_read>>

\* one read of m_model.coefficients in the summation loop of
\* calculateMagDensity (the reads from ConcLen - 1 on together); after the
\* last one the call returns
CSynth(t) ==
    /\ c_pc[t] = "synth"
    /\ LET e == engineOf(c_mode, t)
           k == c_k[t]
           ks == IF k + 1 = ConcLen THEN {j \in SynthIdx : j >= k} ELSE {k}
       IN  /\ c_read' = [c_read EXCEPT ![t] =
                             [j \in CoefIdx |-> IF j \in ks THEN c_model[e].coefficients[j] ELSE @[j]]]
           /\ c_k' = [c_k EXCEPT ![t] = k + 1]
           /\ c_pc' = [c_pc EXCEPT ![t] = IF k + 1 = ConcLen THEN "done" ELSE "synth"]
    /\ UNCHANGED <<m_models, readvars, seqvars, fluxvars, synthvars, c_mode, c_model, c_writer, c_epoch, c_sel>>

NextConc == \E t \in Threads : CSelect(t) \/ CBlend(t) \/ CStamp(t) \/ CSynth(t)

SpecConc == InitConc /\ [][NextConc]_vars

\* ------------------------------------------------------------ GeoMagFlux
MagFluxUnit == {"NanoTesla", "MicroTesla", "Tesla", "Gauss", "Si", "Cgs", "Mks", "Mksa"}
\* a value of the enumeration's underlying type that names no enumerator
OtherUnit == "Other"
nanotesla_to_microtesla == Rat(1, 1000)
nanotesla_to_gauss == Rat(1, 100000)

\* setScaling with the factors of Gauss and MicroTesla exchanged
setScaling_exchanged(unit, scale, symbol) ==
    CASE unit = "NanoTesla" ->
            [m_unit |-> unit, m_unit_scale |-> RInt(1), m_unit_symbol |-> "nT"]
      [] unit = "MicroTesla" ->
            [m_unit |-> unit, m_unit_scale |-> nanotesla_to_gauss, m_unit_symbol |-> "uT"]
      [] unit \in {"Tesla", "Si", "Mks", "Mksa"} ->
            [m_unit |-> unit, m_unit_scale |-> nanotesla_to_tesla, m_unit_symbol |-> "T"]
      [] unit \in {"Gauss", "Cgs"} ->
            [m_unit |-> unit, m_unit_scale |-> nanotesla_to_microtesla, m_unit_symbol |-> "G"]
      [] OTHER ->
            [m_unit |-> unit, m_unit_scale |-> scale, m_unit_symbol |-> symbol]

\* the unit argument the constructors default to
DefaultUnit == "Si"

\* GeoMagFlux::setScaling: the three members after the call
setScaling(unit, scale, symbol) ==
    CASE unit = "NanoTesla" ->
            [m_unit |-> unit, m_unit_scale |-> RInt(1), m_unit_symbol |-> "nT"]
      [] unit = "MicroTesla" ->
            [m_unit |-> unit, m_unit_scale |-> nanotesla_to_microtesla, m_unit_symbol |-> "uT"]
      [] unit \in {"Tesla", "Si", "Mks", "Mksa"} ->
            [m_unit |-> unit, m_unit_scale |-> nanotesla_to_tesla, m_unit_symbol |-> "T"]
      [] unit \in {"Gauss", "Cgs"} ->
            [m_unit |-> unit, m_unit_scale |-> nanotesla_to_gauss, m_unit_symbol |-> "G"]
      [] OTHER ->
            [m_unit |-> unit, m_unit_scale |-> scale, m_unit_symbol |-> symbol]

\* the tables the GeoMagFlux engines are constructed with
FluxTables == {<<>>, SubSeq(ConcTable, 1, 2), ConcTable}

\* GeoMagFlux(model_set, unit): Igrf(model_set), then setScaling(unit) on
\* members that hold nothing yet
InitFlux ==
    /\ m_models \in FluxTables
    /\ m_model = DefaultModel
    /\ query = NoQuery
    /\ outcome = "none"
    /\ sel = NoSel
    /\ returned = NoReturn
    /\ c_mode = "serialized"
    /\ ConcIdle
    /\ SynthIdle
    /\ ReadIdle
    /\ \E unit \in MagFluxUnit :
          LET set == setScaling(unit, RInt(0), "")
          IN  /\ m_unit = set.m_unit
              /\ m_unit_scale = set.m_unit_scale
              /\ m_unit_symbol = set.m_unit_symbol

\* setOutputUnit that also drops the oldest snapshot of the table
setOutputUnit_dropping ==
    /\ outcome # "crash"
    /\ \E unit \in MagFluxUnit \cup {OtherUnit} :
          LET set == setScaling(unit, m_unit_scale, m_unit_symbol)
          IN  /\ m_unit' = set.m_unit
              /\ m_unit_scale' = set.m_unit_scale
              /\ m_unit_symbol' = set.m_unit_symbol
    /\ m_models' = IF m_models = <<>> THEN m_models ELSE Tail(m_models)
    /\ UNCHANGED <<readvars, seqvars, concvars, synthvars>>

\* GeoMagFlux::setOutputUnit
setOutputUnit ==
    /\ outcome # "crash"
    /\ \E unit \in MagFluxUnit \cup {OtherUnit} :
          LET set == setScaling(unit, m_unit_scale, m_unit_symbol)
          IN  /\ m_unit' = set.m_unit
              /\ m_unit_scale' = set.m_unit_scale
              /\ m_unit_symbol' = set.m_unit_symbol
    /\ UNCHANGED <<m_models, readvars, seqvars, concvars, synthvars>>

\* the effect of GeoMagFlux::operator()(position) when it runs to its end
\* or throws
FluxQueryEffect(dt, overload, pos, before_begin) ==
    LET init == initializeModel(dt, m_models, m_model, before_begin)
        mag == calculateMagDensity(init.model, coordinateOf(overload), pos)
    IN  /\ query' = [epoch |-> dt, overload |-> overload, pos |-> pos]
        /\ sel' = init.sel
        /\ m_model' = init.model
        /\ outcome' = IF init.status # "ok" THEN init.status ELSE mag.status
        /\ returned' = IF init.status = "ok" /\ mag.status = "ok"
                       THEN [valid |-> TRUE, mag |-> mag, scale |-> m_unit_scale]
                       ELSE NoReturn

\* GeoMagFlux::operator(): select does not read in front of the table
FluxQuery ==
    /\ outcome # "crash"
    /\ \E dt \in Epochs, overload \in Overloads, pos \in Points :
          /\ select(m_models, dt, DefaultModel).status = "ok" => select(m_models, dt, DefaultModel).it > 0
          /\ FluxQueryEffect(dt, overload, pos, DefaultModel)
    /\ UNCHANGED <<m_models, readvars, concvars, fluxvars, synthvars>>

\* GeoMagFlux::operator(): select reads *(begin - 1) and the read delivers
\* whatever lies there
FluxQueryBeforeBegin ==
    /\ outcome # "crash"
    /\ \E dt \in Epochs, overload \in Overloads, pos \in Points, g \in GarbageModels :
          /\ select(m_models, dt, g).status = "ok"
          /\ select(m_models, dt, g).it = 0
          /\ FluxQueryEffect(dt, overload, pos, g)
    /\ UNCHANGED <<m_models, readvars, concvars, fluxvars, synthvars>>

\* ... or the read faults and the process ends
FluxQueryFault ==
    /\ outcome # "crash"
    /\ \E dt \in Epochs, overload \in Overloads, pos \in Points :
          /\ select(m_models, dt, DefaultModel).status = "ok"
          /\ select(m_models, dt, DefaultModel).it = 0
          /\ query' = [epoch |-> dt, overload |-> overload, pos |-> pos]
          /\ sel' = [status |-> "crash", it |-> 0, last |-> DefaultModel, next |-> DefaultModel]
          /\ outcome' = "crash"
          /\ returned' = NoReturn
    /\ UNCHANGED <<m_models, readvars, m_model, concvars, fluxvars, synthvars>>

NextFlux == setOutputUnit \/ FluxQuery \/ FluxQueryBeforeBegin \/ FluxQueryFault

SpecFlux == InitFlux /\ [][NextFlux]_vars

\* ------------------------------------------- Igrf::calculateMagDensity
\* lengths are counted in units of the IGRF reference radius (6371.2e3 m)
earth_radius == 1
\* the semi-axes of the reference ellipsoid in the same unit; the model's
\* ellipsoid is flatter than WGS84 so that its squares stay small
wgs84_a == RInt(1)
wgs84_b == Rat(1, 2)

\* CoordinateType as it reaches calculateMagDensity: the two kinds it
\* handles and one it does not
CoordinateTags == CoordinateType \cup {"Ecef"}

Equator == Angle(RInt(1), RInt(0))
NorthPole == Angle(RInt(0), RInt(1))
SouthPole == Angle(RInt(0), RInt(-1))
MidLatitude == Angle(Rat(4, 5), Rat(3, 5))
Latitudes == {Equator, NorthPole, SouthPole, MidLatitude}
Greenwich == Angle(RInt(1), RInt(0))
Longitudes(lat) ==
    IF lat = MidLatitude THEN {Greenwich} ELSE {Greenwich, Angle(Rat(3, 5), Rat(4, 5))}
\* a radius for the geocentric kinds, a height over the ellipsoid for Wgs84
Altitudes(type, lat) ==
    IF type # "Wgs84" THEN {RInt(0), RInt(1), RInt(2)}
    ELSE IF lat = Equator THEN {RInt(0), RInt(1)}
    ELSE IF lat = MidLatitude THEN {Rat(5, 4)}
    ELSE {Rat(1, 2), Rat(3, 2)}
\* position.type() and position.elements()
Positions ==
    UNION {{[type |-> type, altitude |-> alt, longitude |-> lon, latitude |-> lat] :
               alt \in Altitudes(type, lat), lon \in Longitudes(lat)} :
            type \in CoordinateTags, lat \in Latitudes}

p_size == ((max_degree + 1) * (max_degree + 2)) \div 2
PIdx == 0..(p_size - 1)

\* the normalizer that takes the latitude for the colatitude
normalized_colatitude(position) ==
    LET h == position.altitude
        cos_theta_gd == position.latitude.cos
        sin_theta_gd == position.latitude.sin
    IN  IF position.type = "GeocentricSpherical"
        THEN [r |-> h, cos_theta |-> cos_theta_gd, sin_theta |-> sin_theta_gd,
              cos_delta |-> RInt(1), sin_delta |-> RInt(0)]
        ELSE LET aa == RMul(wgs84_a, wgs84_a)
                 bb == RMul(wgs84_b, wgs84_b)
                 a2sint2 == RMul(RMul(aa, sin_theta_gd), sin_theta_gd)
                 b2cost2 == RMul(RMul(bb, cos_theta_gd), cos_theta_gd)
                 rho2 == RAdd(a2sint2, b2cost2)
                 rho == RSqrt(rho2)
                 r == RSqrt(RAdd(RAdd(RDiv(RAdd(RMul(aa, a2sint2), RMul(bb, b2cost2)), rho2),
                                      RMul(h, h)),
                                 RMul(RMul(RInt(2), h), rho)))
                 cos_delta == RRound(RDiv(RAdd(h, rho), r))
                 sin_delta == RRound(RDiv(RMul(RMul(RDiv(RSub(aa, bb), rho), sin_theta_gd),
                                               cos_theta_gd), r))
             IN  [r |-> r,
                  cos_theta |-> RRound(RSub(RMul(cos_theta_gd, cos_delta),
                                            RMul(sin_theta_gd, sin_delta))),
                  sin_theta |-> RRound(RAdd(RMul(sin_theta_gd, cos_delta),
                                            RMul(cos_theta_gd, sin_delta))),
                  cos_delta |-> cos_delta, sin_delta |-> sin_delta]

\* lines 157-183: r, the colatitude's cosine and sine and the rotation
\* between the geodetic and the geocentric vertical
normalized(position) ==
    LET h == position.altitude
        cos_theta_gd == position.latitude.sin
        sin_theta_gd == position.latitude.cos
    IN  IF position.type = "GeocentricSpherical"
        THEN [r |-> h, cos_theta |-> cos_theta_gd, sin_theta |-> sin_theta_gd,
              cos_delta |-> RInt(1), sin_delta |-> RInt(0)]
        ELSE LET aa == RMul(wgs84_a, wgs84_a)
                 bb == RMul(wgs84_b, wgs84_b)
                 a2sint2 == RMul(RMul(aa, sin_theta_gd), sin_theta_gd)
                 b2cost2 == RMul(RMul(bb, cos_theta_gd), cos_theta_gd)
                 rho2 == RAdd(a2sint2, b2cost2)
                 rho == RSqrt(rho2)
                 r == RSqrt(RAdd(RAdd(RDiv(RAdd(RMul(aa, a2sint2), RMul(bb, b2cost2)), rho2),
                                      RMul(h, h)),
                                 RMul(RMul(RInt(2), h), rho)))
                 cos_delta == RRound(RDiv(RAdd(h, rho), r))
                 sin_delta == RRound(RDiv(RMul(RMul(RDiv(RSub(aa, bb), rho), sin_theta_gd),
                                               cos_theta_gd), r))
             IN  [r |-> r,
                  cos_theta |-> RRound(RSub(RMul(cos_theta_gd, cos_delta),
                                            RMul(sin_theta_gd, sin_delta))),
                  sin_theta |-> RRound(RAdd(RMul(sin_theta_gd, cos_delta),
                                            RMul(cos_theta_gd, sin_delta))),
                  cos_delta |-> cos_delta, sin_delta |-> sin_delta]

\* lines 157-207: the locals when the loop is reached
entered(position) ==
    LET nz == normalized(position)
    IN  [pc |-> "loop", position |-> position,
         r |-> nz.r, cos_theta |-> nz.cos_theta, sin_theta |-> nz.sin_theta,
         cos_delta |-> nz.cos_delta, sin_delta |-> nz.sin_delta,
         cos_phi |-> [i \in 0..(max_degree - 1) |-> CosMul(i + 1, position.longitude)],
         sin_phi |-> [i \in 0..(max_degree - 1) |-> SinMul(i + 1, position.longitude)],
         p |-> [i \in PIdx |-> IF i = 0 THEN RInt(1) ELSE IF i = 2 THEN nz.sin_theta ELSE RInt(0)],
         d_p |-> [i \in PIdx |-> IF i = 2 THEN nz.cos_theta ELSE RInt(0)],
         b_r |-> RInt(0), b_t |-> RInt(0), b_p |-> RInt(0),
         ratio |-> RMul(RDiv(RInt(earth_radius), nz.r), RDiv(RInt(earth_radius), nz.r)),
         c_idx |-> 1, n |-> 0, m |-> 1, p_idx |-> 2,
         terms |-> <<>>]

\* the recurrence that also recomputes the entry of P[1,1]
legendre_unguarded(f, n, m) ==
    LET p_lag0 == f.p_idx - 1
    IN  IF n = m
        THEN LET p_lag1 == f.p_idx - n - 2
                 cof == RSqrt(RSub(RInt(1), RDiv(RInt(1), RInt(2 * m))))
             IN  [written |-> TRUE, lags |-> <<p_lag1>>,
                  p |-> [f.p EXCEPT ![p_lag0] = RMul(RMul(cof, f.sin_theta), f.p[p_lag1])],
                  d_p |-> [f.d_p EXCEPT ![p_lag0] =
                              RMul(cof, RAdd(RMul(f.sin_theta, f.d_p[p_lag1]),
                                             RMul(f.cos_theta, f.p[p_lag1])))]]
        ELSE LET p_lag1 == f.p_idx - n - 1
                 p_lag2 == f.p_idx - 2 * n
                 cofl == RRound(RDiv(RInt(2 * n - 1), RSqrt(RInt(n * n - m * m))))
                 cofr == RRound(RDiv(RSqrt(RInt((n - 1) * (n - 1) - m * m)),
                                     RSqrt(RInt(n * n - m * m))))
             IN  [written |-> TRUE, lags |-> <<p_lag1, p_lag2>>,
                  p |-> [f.p EXCEPT ![p_lag0] =
                            RSub(RMul(RMul(cofl, f.cos_theta), f.p[p_lag1]),
                                 RMul(cofr, f.p[p_lag2]))],
                  d_p |-> [f.d_p EXCEPT ![p_lag0] =
                              RSub(RMul(cofl, RSub(RMul(f.cos_theta, f.d_p[p_lag1]),
                                                   RMul(f.sin_theta, f.p[p_lag1]))),
                                   RMul(cofr, f.d_p[p_lag2]))]]

\* the recurrence whose diagonal step reads the entry above instead of the
\* diagonal entry before
legendre_above(f, n, m) ==
    LET p_lag0 == f.p_idx - 1
    IN  IF n = m /\ p_lag0 # 2
        THEN LET p_lag1 == f.p_idx - n - 1
                 cof == RSqrt(RSub(RInt(1), RDiv(RInt(1), RInt(2 * m))))
             IN  [written |-> TRUE, lags |-> <<p_lag1>>,
                  p |-> [f.p EXCEPT ![p_lag0] = RMul(RMul(cof, f.sin_theta), f.p[p_lag1])],
                  d_p |-> [f.d_p EXCEPT ![p_lag0] =
                              RMul(cof, RAdd(RMul(f.sin_theta, f.d_p[p_lag1]),
                                             RMul(f.cos_theta, f.p[p_lag1])))]]
        ELSE IF p_lag0 # 2
        THEN LET p_lag1 == f.p_idx - n - 1
                 p_lag2 == f.p_idx - 2 * n
                 cofl == RRound(RDiv(RInt(2 * n - 1), RSqrt(RInt(n * n - m * m))))
                 cofr == RRound(RDiv(RSqrt(RInt((n - 1) * (n - 1) - m * m)),
                                     RSqrt(RInt(n * n - m * m))))
             IN  [written |-> TRUE, lags |-> <<p_lag1, p_lag2>>,
                  p |-> [f.p EXCEPT ![p_lag0] =
                            RSub(RMul(RMul(cofl, f.cos_theta), f.p[p_lag1]),
                                 RMul(cofr, f.p[p_lag2]))],
                  d_p |-> [f.d_p EXCEPT ![p_lag0] =
                              RSub(RMul(cofl, RSub(RMul(f.cos_theta, f.d_p[p_lag1]),
                                                   RMul(f.sin_theta, f.p[p_lag1]))),
                                   RMul(cofr, f.d_p[p_lag2]))]]
        ELSE [written |-> FALSE, lags |-> <<>>, p |-> f.p, d_p |-> f.d_p]

\* lines 215-228: p and d_p after the recurrence step for (n, m)
legendre(f, n, m) ==
    LET p_lag0 == f.p_idx - 1
    IN  IF n = m /\ p_lag0 # 2
        THEN LET p_lag1 == f.p_idx - n - 2
                 cof == RSqrt(RSub(RInt(1), RDiv(RInt(1), RInt(2 * m))))
             IN  [written |-> TRUE, lags |-> <<p_lag1>>,
                  p |-> [f.p EXCEPT ![p_lag0] = RMul(RMul(cof, f.sin_theta), f.p[p_lag1])],
                  d_p |-> [f.d_p EXCEPT ![p_lag0] =
                              RMul(cof, RAdd(RMul(f.sin_theta, f.d_p[p_lag1]),
                                             RMul(f.cos_theta, f.p[p_lag1])))]]
        ELSE IF p_lag0 # 2
        THEN LET p_lag1 == f.p_idx - n - 1
                 p_lag2 == f.p_idx - 2 * n
                 cofl == RRound(RDiv(RInt(2 * n - 1), RSqrt(RInt(n * n - m * m))))
                 cofr == RRound(RDiv(RSqrt(RInt((n - 1) * (n - 1) - m * m)),
                                     RSqrt(RInt(n * n - m * m))))
             IN  [written |-> TRUE, lags |-> <<p_lag1, p_lag2>>,
                  p |-> [f.p EXCEPT ![p_lag0] =
                            RSub(RMul(RMul(cofl, f.cos_theta), f.p[p_lag1]),
                                 RMul(cofr, f.p[p_lag2]))],
                  d_p |-> [f.d_p EXCEPT ![p_lag0] =
                              RSub(RMul(cofl, RSub(RMul(f.cos_theta, f.d_p[p_lag1]),
                                                   RMul(f.sin_theta, f.p[p_lag1]))),
                                   RMul(cofr, f.d_p[p_lag2]))]]
        ELSE [written |-> FALSE, lags |-> <<>>, p |-> f.p, d_p |-> f.d_p]

\* the b_p term that always divides by sin_theta
b_p_term_quotient(f, ratio, m, gh_cof0, gh_cof1, p_lag0_value) ==
    LET m_lag0 == m - 1
        bracket == RSub(RMul(gh_cof1, f.cos_phi[m_lag0]), RMul(gh_cof0, f.sin_phi[m_lag0]))
    IN  [branch |-> "quotient",
         value |-> RMul(RMul(RMul(RMul(RDiv(RInt(1), f.sin_theta), ratio), RInt(m)), bracket),
                        p_lag0_value)]

\* lines 245-249: what is subtracted from b_p, and by which branch
b_p_term(f, ratio, m, gh_cof0, gh_cof1, p_lag0_value) ==
    LET m_lag0 == m - 1
        bracket == RSub(RMul(gh_cof1, f.cos_phi[m_lag0]), RMul(gh_cof0, f.sin_phi[m_lag0]))
    IN  IF IsZero(f.sin_theta)
        THEN [branch |-> "pole",
              value |-> RMul(RMul(RMul(f.cos_theta, ratio), bracket), p_lag0_value)]
        ELSE [branch |-> "quotient",
              value |-> RMul(RMul(RMul(RMul(RDiv(RInt(1), f.sin_theta), ratio), RInt(m)), bracket),
                             p_lag0_value)]

\* the iteration that advances c_idx by two also after an m = 0 term
iteration_paired(f, coefficients) ==
    LET inc == f.n < f.m
        n == IF inc THEN f.n + 1 ELSE f.n
        m == IF inc THEN 0 ELSE f.m
        ratio == IF inc THEN RMul(f.ratio, RDiv(RInt(earth_radius), f.r)) ELSE f.ratio
        p_lag0 == f.p_idx - 1
        lg == legendre(f, n, m)
        c_lag0 == f.c_idx - 1
        gh_cof0 == coefficients[c_lag0]
        gh_cof1 == coefficients[c_lag0 + 1]
        cof == IF m = 0
               THEN RMul(ratio, gh_cof0)
               ELSE RMul(ratio, RAdd(RMul(gh_cof0, f.cos_phi[m - 1]),
                                     RMul(gh_cof1, f.sin_phi[m - 1])))
        bp == IF m = 0
              THEN [branch |-> "none", value |-> RInt(0)]
              ELSE b_p_term(f, ratio, m, gh_cof0, gh_cof1, lg.p[p_lag0])
        b_p == IF m = 0 THEN f.b_p ELSE RSub(f.b_p, bp.value)
    IN  [f EXCEPT
            !.n = n,
            !.m = m + 1,
            !.ratio = ratio,
            !.p = lg.p,
            !.d_p = lg.d_p,
            !.b_r = RAdd(f.b_r, RMul(RMul(RInt(n + 1), cof), lg.p[p_lag0])),
            !.b_t = RSub(f.b_t, RMul(cof, lg.d_p[p_lag0])),
            !.b_p = b_p,
            !.c_idx = IF f.c_idx + 2 < max_coefficient_size THEN f.c_idx + 2 ELSE f.c_idx,
            !.p_idx = f.p_idx + 1,
            !.terms = Append(f.terms,
                             [n |-> n, m |-> m, ratio |-> ratio, p_lag0 |-> p_lag0,
                              written |-> lg.written, lags |-> lg.lags,
                              c_idx |-> f.c_idx, p_idx |-> f.p_idx,
                              reads |-> IF m = 0 THEN {c_lag0} ELSE {c_lag0, c_lag0 + 1},
                              branch |-> bp.branch, b_p |-> b_p])]

\* the iteration that multiplies ratio on every pass
iteration_eager(f, coefficients) ==
    LET inc == f.n < f.m
        n == IF inc THEN f.n + 1 ELSE f.n
        m == IF inc THEN 0 ELSE f.m
        ratio == RMul(f.ratio, RDiv(RInt(earth_radius), f.r))
        p_lag0 == f.p_idx - 1
        lg == legendre(f, n, m)
        c_lag0 == f.c_idx - 1
        gh_cof0 == coefficients[c_lag0]
        gh_cof1 == coefficients[c_lag0 + 1]
        cof == IF m = 0
               THEN RMul(ratio, gh_cof0)
               ELSE RMul(ratio, RAdd(RMul(gh_cof0, f.cos_phi[m - 1]),
                                     RMul(gh_cof1, f.sin_phi[m - 1])))
        bp == IF m = 0
              THEN [branch |-> "none", value |-> RInt(0)]
              ELSE b_p_term(f, ratio, m, gh_cof0, gh_cof1, lg.p[p_lag0])
        b_p == IF m = 0 THEN f.b_p ELSE RSub(f.b_p, bp.value)
    IN  [f EXCEPT
            !.n = n,
            !.m = m + 1,
            !.ratio = ratio,
            !.p = lg.p,
            !.d_p = lg.d_p,
            !.b_r = RAdd(f.b_r, RMul(RMul(RInt(n + 1), cof), lg.p[p_lag0])),
            !.b_t = RSub(f.b_t, RMul(cof, lg.d_p[p_lag0])),
            !.b_p = b_p,
            !.c_idx = IF m = 0 THEN f.c_idx + 1 ELSE f.c_idx + 2,
            !.p_idx = f.p_idx + 1,
            !.terms = Append(f.terms,
                             [n |-> n, m |-> m, ratio |-> ratio, p_lag0 |-> p_lag0,
                              written |-> lg.written, lags |-> lg.lags,
                              c_idx |-> f.c_idx, p_idx |-> f.p_idx,
                              reads |-> IF m = 0 THEN {c_lag0} ELSE {c_lag0, c_lag0 + 1},
                              branch |-> bp.branch, b_p |-> b_p])]

\* lines 208-253: one iteration of the loop over p_idx
iteration(f, coefficients) ==
    LET inc == f.n < f.m
        n == IF inc THEN f.n + 1 ELSE f.n
        m == IF inc THEN 0 ELSE f.m
        ratio == IF inc THEN RMul(f.ratio, RDiv(RInt(earth_radius), f.r)) ELSE f.ratio
        p_lag0 == f.p_idx - 1
        lg == legendre(f, n, m)
        c_lag0 == f.c_idx - 1
        gh_cof0 == coefficients[c_lag0]
        gh_cof1 == coefficients[c_lag0 + 1]
        cof == IF m = 0
               THEN RMul(ratio, gh_cof0)
               ELSE RMul(ratio, RAdd(RMul(gh_cof0, f.cos_phi[m - 1]),
                                     RMul(gh_cof1, f.sin_phi[m - 1])))
        bp == IF m = 0
              THEN [branch |-> "none", value |-> RInt(0)]
              ELSE b_p_term(f, ratio, m, gh_cof0, gh_cof1, lg.p[p_lag0])
        b_p == IF m = 0 THEN f.b_p ELSE RSub(f.b_p, bp.value)
    IN  [f EXCEPT
            !.n = n,
            !.m = m + 1,
            !.ratio = ratio,
            !.p = lg.p,
            !.d_p = lg.d_p,
            !.b_r = RAdd(f.b_r, RMul(RMul(RInt(n + 1), cof), lg.p[p_lag0])),
            !.b_t = RSub(f.b_t, RMul(cof, lg.d_p[p_lag0])),
            !.b_p = b_p,
            !.c_idx = IF m = 0 THEN f.c_idx + 1 ELSE f.c_idx + 2,
            !.p_idx = f.p_idx + 1,
            !.terms = Append(f.terms,
                             [n |-> n, m |-> m, ratio |-> ratio, p_lag0 |-> p_lag0,
                              written |-> lg.written, lags |-> lg.lags,
                              c_idx |-> f.c_idx, p_idx |-> f.p_idx,
                              reads |-> IF m = 0 THEN {c_lag0} ELSE {c_lag0, c_lag0 + 1},
                              branch |-> bp.branch, b_p |-> b_p])]

\* the rotation with the sign of the radial part of north turned round
rotated_flipped(f) ==
    << RAdd(RMul(RNeg(f.b_t), f.cos_delta), RMul(f.b_r, f.sin_delta)),
       f.b_p,
       RSub(RMul(f.b_t, f.sin_delta), RMul(f.b_r, f.cos_delta)) >>

\* line 254: the vector written to mag_density
rotated(f) ==
    << RSub(RMul(RNeg(f.b_t), f.cos_delta), RMul(f.b_r, f.sin_delta)),
       f.b_p,
       RSub(RMul(f.b_t, f.sin_delta), RMul(f.b_r, f.cos_delta)) >>

\* the working models calculateMagDensity is called on: what initializeModel
\* leaves for an epoch in the interpolated and one in the extrapolated
\* interval
WorkingModels ==
    {initializeModel(dt, ConcTable, DefaultModel, DefaultModel).model : dt \in ConcEpochs}

InitSynth ==
    /\ m_models = ConcTable
    /\ m_model \in WorkingModels
    /\ query = NoQuery
    /\ outcome = "none"
    /\ sel = NoSel
    /\ returned = NoReturn
    /\ c_mode = "serialized"
    /\ ConcIdle
    /\ FluxIdle
    /\ SynthIdle
    /\ ReadIdle

\* calculateMagDensity is entered with a position of a kind it handles and
\* runs up to the loop
SynthEnter ==
    /\ frame.pc = "idle"
    /\ \E position \in Positions :
          /\ position.type \in CoordinateType
          /\ frame' = entered(position)
    /\ UNCHANGED <<m_models, readvars, seqvars, concvars, fluxvars, mag_density>>

\* the throw that also clears the caller's vector
SynthThrow_clearing ==
    /\ frame.pc = "idle"
    /\ \E position \in Positions :
          /\ position.type \notin CoordinateType
          /\ frame' = [pc |-> "thrown", position |-> position,
                        status |-> "InvalidCoordinateKind"]
    /\ mag_density' = <<RInt(0), RInt(0), RInt(0)>>
    /\ UNCHANGED <<m_models, readvars, seqvars, concvars, fluxvars>>

\* line 185: any other kind throws before anything is computed
SynthThrow ==
    /\ frame.pc = "idle"
    /\ \E position \in Positions :
          /\ position.type \notin CoordinateType
          /\ frame' = [pc |-> "thrown", position |-> position,
                        status |-> "InvalidCoordinateKind"]
    /\ UNCHANGED <<m_models, readvars, seqvars, concvars, fluxvars, mag_density>>

\* one pass through the body of the loop
SynthIterate ==
    /\ frame.pc = "loop"
    /\ frame.p_idx <= p_size
    /\ frame' = iteration(frame, m_model.coefficients)
    /\ UNCHANGED <<m_models, readvars, seqvars, concvars, fluxvars, mag_density>>

\* the loop has ended: line 254 and the return
SynthReturn ==
    /\ frame.pc = "loop"
    /\ frame.p_idx > p_size
    /\ mag_density' = rotated(frame)
    /\ frame' = [frame EXCEPT !.pc = "done"]
    /\ UNCHANGED <<m_models, readvars, seqvars, concvars, fluxvars>>

NextSynth == SynthEnter \/ SynthThrow \/ SynthIterate \/ SynthReturn

SpecSynth == InitSynth /\ [][NextSynth]_vars

\* --------------------------------------------------------- ModelSet::read
\* a line is kept as the marker getModelFileRowType finds in it and its
\* whitespace-separated tokens
Line(marker, tokens) == [marker |-> marker, tokens |-> tokens]

getModelFileRowType(l) ==
    CASE l.marker = "#" -> "Comment"
      [] l.marker = "c/s" -> "ModelType"
      [] l.marker = "g/h" -> "Epoch"
      [] l.marker = "g" -> "GCoeffecient"
      [] l.marker = "h" -> "HCoeffecient"
      [] OTHER -> "Unknown"

getModelType(elem) ==
    CASE elem = "DGRF" -> "Dgrf"
      [] elem = "IGRF" -> "Igrf"
      [] elem = "SV" -> "Sv"
      [] OTHER -> "Unknown"

\* the tokens of the epoch and coefficient rows: a short word ("g/h", "n",
\* "1"), a longer word that is no number, digits with or without a fraction
\* ("2020.0", "1900"), a hyphenated range ("2020-25"), a value
Short == [form |-> "short"]
Word == [form |-> "word"]
Plain(digits, fraction) == [form |-> "plain", digits |-> digits, fraction |-> fraction]
Range(lower, upper) == [form |-> "range", lower |-> lower, upper |-> upper]
Number(v) == [form |-> "number", value |-> v]

\* elm.length()
Length(elm) ==
    CASE elm.form = "short" -> 3
      [] elm.form = "word" -> 6
      [] elm.form = "plain" -> Len(elm.digits) + (IF elm.fraction THEN 2 ELSE 0)
      [] elm.form = "range" -> Len(elm.lower) + 1 + Len(elm.upper)
      [] elm.form = "number" -> 1

\* the value of a string of decimal digits
RECURSIVE DigitsValue(_)
DigitsValue(digits) ==
    IF digits = <<>> THEN 0
    ELSE 10 * DigitsValue(SubSeq(digits, 1, Len(digits) - 1)) + digits[Len(digits)]

\* the range token read as the part before its hyphen
stoiArgument_lower(elm) ==
    CASE elm.form = "plain" -> elm.digits
      [] elm.form = "range" -> elm.lower
      [] OTHER -> <<>>

\* the string std::stoi is given for an epoch token: the token itself, or for
\* a range lower_range.substr(0, lower.length() - upper.length()) + upper_range,
\* where a count that wraps round below zero takes the whole of lower_range
stoiArgument(elm) ==
    CASE elm.form = "plain" -> elm.digits
      [] elm.form = "range" ->
            LET count == Len(elm.lower) - Len(elm.upper)
            IN  (IF count < 0 THEN elm.lower ELSE SubSeq(elm.lower, 1, count)) \o elm.upper
      [] OTHER -> <<>>
\* std::stoi and std::stod throw on a string that starts with no number
Throws(elm) ==
    CASE elm.form \in {"plain", "range"} -> stoiArgument(elm) = <<>>
      [] elm.form = "number" -> FALSE
      [] OTHER -> TRUE
\* std::stoi
stoi(elm) == DigitsValue(stoiArgument(elm))
\* DateTime(year, 1): 1 January of the year
DateTime(y, month) == y * TicksPerYear + (month - 1)

\* the ModelType row: one new snapshot for every token that names a kind
RECURSIVE readModelType(_, _, _)
readModelType(tokens, k, st) ==
    IF k > Len(tokens) THEN st
    ELSE LET type == getModelType(tokens[k])
         IN  IF type # "Unknown"
             THEN readModelType(tokens, k + 1,
                     [st EXCEPT !.models = Append(@, [DefaultModel EXCEPT !.type = type]),
                                !.written = Append(@, [model |-> Len(st.models), colum |-> k - 1,
                                                       field |-> "type", index |-> 0])])
             ELSE readModelType(tokens, k + 1, st)

\* the Epoch row: st.i is the local i
RECURSIVE readEpoch(_, _, _)
readEpoch(tokens, k, st) ==
    IF k > Len(tokens) THEN st
    ELSE LET elm == tokens[k]
         IN  IF Length(elm) >= 6 /\ ~Throws(elm)
             THEN IF st.i < Len(st.models)
                  THEN readEpoch(tokens, k + 1,
                          [st EXCEPT !.models[st.i + 1].epoch = DateTime(stoi(elm), 1),
                                     !.i = @ + 1,
                                     !.written = Append(@, [model |-> st.i, colum |-> k - 1,
                                                            field |-> "epoch", index |-> 0])])
                  ELSE [st EXCEPT !.outside = TRUE]
             ELSE readEpoch(tokens, k + 1, st)

\* a GCoeffecient or HCoeffecient row: st.i is the local m_i
RECURSIVE readCoeffecient(_, _, _)
readCoeffecient(tokens, k, st) ==
    IF k > Len(tokens) THEN st
    ELSE LET elm == tokens[k]
             colum == k - 1
         IN  IF colum >= 3 /\ ~Throws(elm)
             THEN IF st.i < Len(st.models) /\ st.c_i < max_coefficient_size
                  THEN readCoeffecient(tokens, k + 1,
                          [st EXCEPT !.models[st.i + 1].coefficients[st.c_i] = RInt(elm.value),
                                     !.i = @ + 1,
                                     !.written = Append(@, [model |-> st.i, colum |-> colum,
                                                            field |-> "coefficient",
                                                            index |-> st.c_i])])
                  ELSE [st EXCEPT !.outside = TRUE]
             ELSE readCoeffecient(tokens, k + 1, st)

\* the body of the while loop for one line: the table and c_i after it, the
\* writes made, and whether one of them went outside the table
readLine(models, ci, l) ==
    LET st == [models |-> models, c_i |-> ci, i |-> 0, written |-> <<>>, outside |-> FALSE]
        type == getModelFileRowType(l)
    IN  CASE type = "ModelType" -> readModelType(l.tokens, 1, st)
          [] type = "Epoch" -> readEpoch(l.tokens, 1, st)
          [] type \in {"GCoeffecient", "HCoeffecient"} ->
                LET after == readCoeffecient(l.tokens, 1, st)
                IN  IF ~after.outside /\ after.i = Len(after.models)
                    THEN [after EXCEPT !.c_i = @ + 1]
                    ELSE after
          [] OTHER -> st

\* the lines the streams are made of
Lines ==
    { Line("#", <<Word, Word>>),
      Line("", <<>>),
      Line("c/s", <<"c/s", "deg", "ord", "IGRF", "SV">>),
      Line("c/s", <<"c/s", "deg", "ord", "DGRF">>),
      Line("g/h", <<Short, Short, Short, Plain(<<2, 0, 2, 0>>, TRUE), Range(<<2, 0, 2, 0>>, <<2, 5>>)>>),
      Line("g/h", <<Short, Short, Short, Word, Plain(<<2, 0, 1, 5>>, TRUE)>>),
      Line("g/h", <<Short, Short, Short, Plain(<<2, 0, 1, 5>>, FALSE), Plain(<<2, 0, 2, 0>>, TRUE),
                    Range(<<2, 0, 2, 0>>, <<2, 5>>), Range(<<1, 9, 9, 5>>, <<2, 0, 0, 0>>)>>),
      Line("g", <<Short, Number(1), Number(0), Number(3), Number(5)>>),
      Line("h", <<Short, Number(1), Number(1), Word, Number(7)>>),
      Line("g", <<Short, Number(1), Number(0), Number(3), Number(5), Number(9)>>) }

\* ModelSet(std::istream&): read starts on an empty table
InitRead ==
    /\ m_models = <<>>
    /\ m_model = DefaultModel
    /\ query = NoQuery
    /\ outcome = "none"
    /\ sel = NoSel
    /\ returned = NoReturn
    /\ c_mode = "serialized"
    /\ ConcIdle
    /\ FluxIdle
    /\ SynthIdle
    /\ is_state = "good"
    /\ c_i = 0
    /\ line = NoLine
    /\ written = <<>>

\* std::getline delivers a line and all its writes stay inside the table
ReadLine ==
    /\ is_state = "good"
    /\ \E l \in Lines :
          LET after == readLine(m_models, c_i, l)
          IN  /\ ~after.outside
              /\ Len(after.models) <= MaxLen
              /\ m_models' = after.models
              /\ c_i' = after.c_i
              /\ line' = l
              /\ written' = after.written
    /\ UNCHANGED <<is_state, seqvars, concvars, fluxvars, synthvars>>

\* a write of the line goes through m_models[i] with i >= size(), or through
\* coefficients[c_i] with c_i beyond the array: memory outside the table is
\* overwritten and nothing is known of the program afterwards
ReadOutside ==
    /\ is_state = "good"
    /\ \E l \in Lines :
          LET after == readLine(m_models, c_i, l)
          IN  /\ after.outside
              /\ m_models' = after.models
              /\ line' = l
              /\ written' = after.written
    /\ is_state' = "corrupted"
    /\ UNCHANGED <<c_i, seqvars, concvars, fluxvars, synthvars>>

\* ... or the write faults and the process ends
ReadFault ==
    /\ is_state = "good"
    /\ \E l \in Lines :
          LET after == readLine(m_models, c_i, l)
          IN  /\ after.outside
              /\ m_models' = after.models
              /\ line' = l
              /\ written' = after.written
    /\ is_state' = "crash"
    /\ UNCHANGED <<c_i, seqvars, concvars, fluxvars, synthvars>>

\* std::getline finds the end of the stream and read returns
ReadEof ==
    /\ is_state = "good"
    /\ is_state' = "eof"
    /\ UNCHANGED <<m_models, c_i, line, written, seqvars, concvars, fluxvars, synthvars>>

NextRead == ReadLine \/ ReadOutside \/ ReadFault \/ ReadEof

SpecRead == InitRead /\ [][NextRead]_vars

TypeOK ==
    /\ outcome \in {"none", "ok", "EmptyTable", "NoBracketFound", "InvalidCoordinateKind", "crash"}
    /\ m_model.type \in ModelType

\* ------------------------------------------------------------- vocabulary
Asked == outcome # "none"
epoch == query.epoch
Size == Len(m_models)
Sorted(models) ==
    \A i \in 1..Len(models), j \in 1..Len(models) : i < j => models[i].epoch <= models[j].epoch
StrictlySorted(models) ==
    \A i \in 1..Len(models), j \in 1..Len(models) : i < j => models[i].epoch < models[j].epoch
\* select returned a pair (it did not throw and the process did not fault)
Selected == Asked /\ sel.status = "ok"
\* the fraction of a year a tick stands for
Years(ticks) == Rat(ticks, TicksPerYear)

C2_NoBracketBeforeFirst ==
    (Asked /\ Size > 0 /\ Sorted(m_models) /\ epoch < m_models[1].epoch) =>
        /\ outcome = "NoBracketFound"
        /\ sel.status = "NoBracketFound"
        /\ ~returned.valid

\* ------------------------------------------------------------------ C3
LaterThanAll(models, dt) == \A i \in 1..Len(models) : models[i].epoch < dt

\* C3: a query later than every snapshot epoch of a non-empty table fails
\* with NoBracketFound, returns nothing and leaves the working model as it
\* was.
C3_NoBracketAfterLast ==
    [][(Len(m_models') > 0 /\ LaterThanAll(m_models', query'.epoch)) =>
            /\ outcome' = "NoBracketFound"
            /\ sel'.status = "NoBracketFound"
            /\ ~returned'.valid
            /\ m_model' = m_model]_vars

\* a query later than the epoch of the table's final SecularVariation entry
C3_Witness ==
    /\ Asked /\ Size >= 2 /\ StrictlySorted(m_models)
    /\ m_models[Size].type = "Sv" /\ m_models[Size].epoch < epoch
    /\ outcome = "NoBracketFound"

\* ------------------------------------------------------------------ C4
\* C4: on a table without entries every query fails with EmptyTable, and
\* select has looked at no entry.
C4_EmptyTable ==
    (Asked /\ Size = 0) =>
        /\ outcome = "EmptyTable"
        /\ sel = [status |-> "EmptyTable", it |-> 0, last |-> DefaultModel, next |-> DefaultModel]
        /\ ~returned.valid
        /\ m_model = DefaultModel

C4_Witness == Size = 0 /\ outcome = "EmptyTable" /\ epoch = MaxTick

C6_CoverageFromFirstEpoch ==
    (Asked /\ Size > 0 /\ Sorted(m_models)
       /\ m_models[1].epoch <= epoch /\ epoch <= m_models[Size].epoch) =>
        /\ outcome = "ok"
        /\ returned.valid
        /\ sel.it >= 1

\* ------------------------------------------------------------------ C7
\* the interpolation of the specification, on the snapshots' full epochs
InterpolatedCoefficient(dt, lower, upper, k) ==
    LET f == RDiv(Years(dt - lower.epoch), Years(upper.epoch - lower.epoch))
    IN  RAdd(lower.coefficients[k],
             RMul(f, RSub(upper.coefficients[k], lower.coefficients[k])))

\* C7: when upper is not a SecularVariation snapshot the working model is
\* c[k] = lower[k] + f*(upper[k] - lower[k]),
\* f = (e - lower.epoch)/(upper.epoch - lower.epoch) on the full epochs,
\* tagged Interpolated, with epoch e.
C7_Interpolation ==
    (Selected /\ outcome = "ok" /\ StrictlySorted(m_models) /\ sel.it >= 1
       /\ sel.next.type # "Sv") =>
        /\ \A k \in CoefIdx :
              m_model.coefficients[k] = InterpolatedCoefficient(epoch, sel.last, sel.next, k)
        /\ m_model.type = "Interpolated"
        /\ m_model.epoch = epoch

\* ------------------------------------------------------------------ C8
\* the extrapolation of the specification, from the lower snapshot's full
\* epoch
ExtrapolatedCoefficient(dt, lower, upper, k) ==
    RAdd(lower.coefficients[k], RMul(Years(dt - lower.epoch), upper.coefficients[k]))

\* C8: when upper is a SecularVariation snapshot the working model is
\* c[k] = lower[k] + dt*upper[k], dt = e - lower.epoch in years, tagged
\* Extrapolated, with epoch e.
C8_Extrapolation ==
    (Selected /\ outcome = "ok" /\ StrictlySorted(m_models) /\ sel.it >= 1
       /\ sel.next.type = "Sv") =>
        /\ \A k \in CoefIdx :
              m_model.coefficients[k] = ExtrapolatedCoefficient(epoch, sel.last, sel.next, k)
        /\ m_model.type = "Extrapolated"
        /\ m_model.epoch = epoch

\* ------------------------------------------------------------------ C9
\* what a query at dt leaves in the working model of an engine that has
\* answered no query before
FreshBlend(models, dt) == initializeModel(dt, models, DefaultModel, DefaultModel)

\* C9: after any sequence of earlier queries, the working model a successful
\* query synthesizes from is the blend of the table's bracketing pair for
\* the current epoch alone: coefficients, tag and epoch.
C9_OrderIndependent ==
    (Asked /\ outcome = "ok") =>
        LET fresh == FreshBlend(m_models, epoch)
        IN  /\ fresh.sel.it >= 1
            /\ m_model = fresh.model
            /\ returned.mag.coefficients = fresh.model.coefficients

\* the part of C9 that holds: when select read table entries only
C9_BracketedOrderIndependent ==
    (Asked /\ outcome = "ok" /\ sel.it >= 1) =>
        LET fresh == FreshBlend(m_models, epoch)
        IN  /\ m_model = fresh.model
            /\ returned.mag.coefficients = fresh.model.coefficients

\* ----------------------------------------------------------------- C10
\* the coefficients the summation of call t has read so far
ReadSoFar(t) ==
    IF c_pc[t] = "synth" THEN 0..(c_k[t] - 1)
    ELSE IF c_pc[t] = "done" THEN SynthIdx ELSE {}

\* call t has read a coefficient that the other call wrote
StaleRead(t) ==
    \E k \in ReadSoFar(t) : c_read[t][k] # blendOf(c_epoch[t], c_sel[t])[k]

\* C10: when each concurrent call has its own engine, or the calls are
\* serialized, every coefficient a call's summation reads is the one
\* blended for that call's epoch ...
C10_NoStaleReadUnlessShared ==
    c_mode # "shared" =>
        \A t \in Threads :
            /\ ~StaleRead(t)
            /\ \A k \in ReadSoFar(t) : c_writer[engineOf(c_mode, t)][k] = t \/ c_mode = "serialized"

\* ... and on one shared engine there is an interleaving in which a call's
\* summation has read coefficients blended for the other call's epoch
C10_Witness ==
    /\ c_mode = "shared"
    /\ c_epoch[1] # c_epoch[2]
    /\ \E t \in Threads : c_pc[t] = "done" /\ StaleRead(t)

\* ----------------------------------------------------------------- C11
\* C11: no query (either overload, succeeding, failing or faulting) and no
\* setOutputUnit call changes the coefficient table: every step leaves
\* m_models as the constructor left it.
C11_TableNeverMutated == [][m_models' = m_models]_vars

\* a non-empty table after a unit change and queries that both succeeded
\* and failed on it
C11_Witness ==
    /\ Size > 0
    /\ m_unit = "Gauss"
    /\ outcome = "NoBracketFound"
    /\ m_model.type = "Interpolated"

\* ----------------------------------------------------------------- C12
\* the table invariant of the specification
TableInvariant(models) ==
    /\ StrictlySorted(models)
    /\ \A i \in 1..Len(models) : models[i].type = "Sv" => i = Len(models)

\* C12: every table an engine is constructed with is sorted strictly
\* ascending by epoch (so has no duplicate epochs) and holds at most one
\* SecularVariation snapshot, as its final entry.
C12_ConstructedTableInvariant == TableInvariant(m_models)

\* ----------------------------------------------------------------- C13
\* C13: for every snapshot S of a table that satisfies the table invariant
\* and the entry U after it, the blend at S's own epoch with S as lower and
\* U as upper has S's coefficients at every index.
C13_BlendAtLowerEpoch ==
    TableInvariant(m_models) =>
        \A i \in 1..(Size - 1) :
            blendOf(m_models[i].epoch, [last |-> m_models[i], next |-> m_models[i + 1]])
                = m_models[i].coefficients

\* the part of C13 that holds: snapshots on 1 January
C13_BlendAtLowerEpochWholeYears ==
    (TableInvariant(m_models)
       /\ \A i \in 1..Size : m_models[i].epoch % TicksPerYear = 0) =>
        \A i \in 1..(Size - 1) :
            blendOf(m_models[i].epoch, [last |-> m_models[i], next |-> m_models[i + 1]])
                = m_models[i].coefficients

\* ----------------------------------------------------------------- C14
\* the index of the final snapshot that is not a SecularVariation one
IsFinalField(models, i) ==
    /\ models[i].type # "Sv"
    /\ \A j \in (i + 1)..Len(models) : models[j].type = "Sv"

\* C14: on a table that satisfies the table invariant, a query at the
\* epoch of the final Definitive/Predictive snapshot S succeeds and leaves
\* a working model with S's coefficients at every index.
C14_FinalSnapshotUnchanged ==
    \A i \in 1..Size :
        (Asked /\ TableInvariant(m_models) /\ IsFinalField(m_models, i)
           /\ epoch = m_models[i].epoch) =>
            /\ outcome = "ok"
            /\ m_model.coefficients = m_models[i].coefficients

\* the part of C14 that holds: snapshots on 1 January and S not the first
\* entry
C14_FinalSnapshotUnchangedWholeYears ==
    \A i \in 2..Size :
        (Asked /\ TableInvariant(m_models) /\ IsFinalField(m_models, i)
           /\ epoch = m_models[i].epoch
           /\ \A j \in 1..Size : m_models[j].epoch % TicksPerYear = 0) =>
            /\ outcome = "ok"
            /\ m_model.coefficients = m_models[i].coefficients

\* ----------------------------------------------------------------- C15
Failed(o) == o \in {"EmptyTable", "NoBracketFound", "InvalidCoordinateKind"}

\* what a query returns on an engine that has answered no query before,
\* lower being the model select delivered when it read in front of the table
Answer(q, s) ==
    LET g == IF s.it = 0 THEN s.last ELSE DefaultModel
        init == initializeModel(q.epoch, m_models, DefaultModel, g)
    IN  [valid |-> TRUE,
         mag |-> calculateMagDensity(init.model, coordinateOf(q.overload), q.pos),
         scale |-> nanotesla_to_tesla]

\* C15: a query that fails returns no vector and, when select threw, leaves
\* the working model as it was; a query that succeeds after a failed one
\* returns what it returns on an engine that never failed.
C15_FailureReturnsNothing ==
    [][ /\ Failed(outcome') => returned' = NoReturn
        /\ outcome' \in {"EmptyTable", "NoBracketFound"} => m_model' = m_model
        /\ (Failed(outcome) /\ outcome' = "ok") => returned' = Answer(query', sel') ]_vars

\* a query failed on an engine that had answered one before
C15_Witness ==
    /\ outcome = "NoBracketFound"
    /\ returned = NoReturn
    /\ m_model.type \in {"Interpolated", "Extrapolated"}

\* ----------------------------------------------------------------- C20
\* C20 as stated: every snapshot and the working model hold exactly
\* max_degree*(max_degree+2) coefficients.
C20_Original ==
    /\ Cardinality(DOMAIN m_model.coefficients) = max_degree * (max_degree + 2)
    /\ \A i \in 1..Size :
          Cardinality(DOMAIN m_models[i].coefficients) = max_degree * (max_degree + 2)

\* C20 amended: every snapshot, the pair select returns and the working
\* model hold a fixed-length array of max_degree*(max_degree+2) + 1
\* doubles, indexed from 0.
C20_FixedLength ==
    /\ DOMAIN m_model.coefficients = 0..(max_degree * (max_degree + 2))
    /\ \A i \in 1..Size : DOMAIN m_models[i].coefficients = 0..(max_degree * (max_degree + 2))
    /\ DOMAIN sel.last.coefficients = 0..(max_degree * (max_degree + 2))
    /\ DOMAIN sel.next.coefficients = 0..(max_degree * (max_degree + 2))

C20_Witness ==
    /\ Size = MaxLen
    /\ outcome = "ok"
    /\ m_model.type = "Extrapolated"

\* ------------------------------------------------------------------ C16
\* C16: when calculateMagDensity is entered with a position whose kind is
\* neither GeocentricSpherical nor Wgs84, the call ends with
\* InvalidCoordinateKind and the output vector is as it was before the call.
C16_InvalidKindThrows ==
    [][(frame.pc = "idle" /\ frame'.pc # "idle" /\ frame'.position.type \notin CoordinateType) =>
          /\ frame'.pc = "thrown"
          /\ frame'.status = "InvalidCoordinateKind"
          /\ mag_density' = mag_density]_vars
C16_Witness ==
    /\ frame.pc = "thrown"
    /\ frame.position.type = "Ecef"
    /\ frame.status = "InvalidCoordinateKind"
    /\ mag_density = NoVector

\* ------------------------------------------------------------------ C17
\* Br, Btheta and Bphi are all finite
FiniteField == IsFinite(frame.b_r) /\ IsFinite(frame.b_t) /\ IsFinite(frame.b_p)
\* C17: the vector returned is (north, east, down) with
\* north = -Btheta*cos(delta) - Br*sin(delta), east = Bphi and
\* down = Btheta*sin(delta) - Br*cos(delta); for a GeocentricSpherical
\* position cos(delta) = 1, sin(delta) = 0 and r is the radius given, so
\* that the vector of a finite field is (-Btheta, Bphi, -Br).
C17_Rotation ==
    frame.pc = "done" =>
        /\ mag_density[1] = RSub(RMul(RNeg(frame.b_t), frame.cos_delta),
                                 RMul(frame.b_r, frame.sin_delta))
        /\ mag_density[2] = frame.b_p
        /\ mag_density[3] = RSub(RMul(frame.b_t, frame.sin_delta),
                                 RMul(frame.b_r, frame.cos_delta))
        /\ frame.position.type = "GeocentricSpherical" =>
              /\ frame.cos_delta = RInt(1)
              /\ frame.sin_delta = RInt(0)
              /\ frame.r = frame.position.altitude
              /\ FiniteField =>
                    mag_density = <<RNeg(frame.b_t), frame.b_p, RNeg(frame.b_r)>>
C17_Witness ==
    /\ frame.pc = "done"
    /\ frame.position.type = "Wgs84"
    /\ ~IsZero(frame.sin_delta)
    /\ FiniteField
    /\ ~IsZero(frame.b_r)
    /\ ~IsZero(frame.b_t)
    /\ mag_density[1] # RNeg(frame.b_t)

\* ------------------------------------------------------------------ C18
\* the value of b_p before the k-th iteration
BpBefore(k) == IF k = 1 THEN RInt(0) ELSE frame.terms[k - 1].b_p
\* the smaller of the coefficient indices an iteration read
FirstRead(t) == CHOOSE i \in t.reads : \A j \in t.reads : i <= j
\* h*cos(m*phi) - g*sin(m*phi) of an iteration with m >= 1
Bracket(t) ==
    RSub(RMul(m_model.coefficients[FirstRead(t) + 1], frame.cos_phi[t.m - 1]),
         RMul(m_model.coefficients[FirstRead(t)], frame.sin_phi[t.m - 1]))
\* C18: when sin_theta, the sine of the geocentric colatitude used for the
\* synthesis, is exactly 0, every iteration with m >= 1 takes the closed-form
\* branch, b_p -= cos_theta*ratio*(h*cos(m*phi) - g*sin(m*phi))*P[n,m], and
\* none divides by sin_theta; Bphi and the east component returned are
\* finite (for a radius other than 0, where ratio itself is finite).
C18_PoleClosedForm ==
    (frame.pc \in {"loop", "done"} /\ IsZero(frame.sin_theta)) =>
        /\ \A k \in 1..Len(frame.terms) :
              frame.terms[k].m >= 1 =>
                  /\ frame.terms[k].branch = "pole"
                  /\ frame.terms[k].b_p =
                        RSub(BpBefore(k),
                             RMul(RMul(RMul(frame.cos_theta, frame.terms[k].ratio),
                                       Bracket(frame.terms[k])),
                                  frame.p[frame.terms[k].p_lag0]))
        /\ ~IsZero(frame.r) =>
              /\ IsFinite(frame.b_p)
              /\ frame.pc = "done" => IsFinite(mag_density[2])
C18_Witness ==
    /\ frame.pc = "done"
    /\ IsZero(frame.sin_theta)
    /\ ~IsZero(frame.r)
    /\ \E k \in 1..Len(frame.terms) :
          /\ frame.terms[k].m >= 1
          /\ frame.terms[k].branch = "pole"
          /\ ~IsZero(Bracket(frame.terms[k]))
    /\ IsFinite(mag_density[2])

\* ------------------------------------------------------------------ C19
\* C19: from the loop's first iteration to the return, for every colatitude,
\* p[0] = P[0,0] is 1, p[2] = P[1,1] is sin_theta, d_p[0] = dP[0,0] is 0 and
\* d_p[2] = dP[1,1] is cos_theta, and no iteration has written entry 0 or
\* entry 2 of the tables.
C19_SeedsKept ==
    frame.pc \in {"loop", "done"} =>
        /\ frame.p[0] = RInt(1)
        /\ frame.p[2] = frame.sin_theta
        /\ frame.d_p[0] = RInt(0)
        /\ frame.d_p[2] = frame.cos_theta
        /\ \A k \in 1..Len(frame.terms) :
              frame.terms[k].written => frame.terms[k].p_lag0 \notin {0, 2}
C19_Witness ==
    /\ frame.pc = "done"
    /\ Len(frame.terms) = p_size - 1
    /\ ~IsZero(frame.sin_theta)
    /\ ~IsZero(frame.cos_theta)
    /\ \E k \in 1..Len(frame.terms) : frame.terms[k].p_lag0 = 2 /\ ~frame.terms[k].written

\* ------------------------------------------------------------------ C21
\* C21: whatever Igrf::operator() returns, for the Ecef and for the Wgs84
\* overload, is the nanotesla vector calculateMagDensity computed from the
\* working model and the position of the query, multiplied by 1e-9.
C21_ReturnsTesla ==
    (Asked /\ returned.valid) =>
        /\ query.overload \in Overloads
        /\ returned.scale = Rat(1, 1000000000)
        /\ returned.mag = calculateMagDensity(m_model, coordinateOf(query.overload), query.pos)
        /\ returned.mag.status = "ok"
C21_Witness ==
    /\ Asked
    /\ returned.valid
    /\ query.overload = "Ecef"
    /\ returned.mag.type = "GeocentricSpherical"
    /\ returned.scale = Rat(1, 1000000000)
    /\ m_model.type = "Extrapolated"

\* ------------------------------------------------------------------ C22
\* the scale the claim gives for each unit
ScaleOf(unit) ==
    CASE unit = "NanoTesla" -> RInt(1)
      [] unit = "MicroTesla" -> Rat(1, 1000)
      [] unit \in {"Gauss", "Cgs"} -> Rat(1, 100000)
      [] unit \in {"Tesla", "Si", "Mks", "Mksa"} -> Rat(1, 1000000000)
\* C22: a step that leaves the unit members alone is a query, and what it
\* returns is the nanotesla vector calculateMagDensity computed from the
\* working model a fresh engine would have built for that epoch, with the
\* scale of the unit set last (NanoTesla 1, MicroTesla 1e-3, Gauss and Cgs
\* 1e-5, Tesla, Si, Mks and Mksa 1e-9; the constructors default to Si), so
\* with Tesla it is what Igrf returns (C21); a step that changes a unit
\* member is setOutputUnit and changes neither the table, the working model
\* nor the vector returned before.
C22_DelegatesAndScales ==
    [][IF fluxvars' = fluxvars
       THEN (returned'.valid /\ m_unit \in MagFluxUnit) =>
               /\ returned'.scale = ScaleOf(m_unit)
               /\ m_model' = initializeModel(query'.epoch, m_models, DefaultModel,
                                             sel'.last).model
               /\ returned'.mag = calculateMagDensity(m_model', coordinateOf(query'.overload),
                                                      query'.pos)
               /\ m_unit = "Tesla" => returned'.scale = Rat(1, 1000000000)
               /\ ScaleOf(DefaultUnit) = Rat(1, 1000000000)
       ELSE UNCHANGED <<m_models, seqvars>>]_vars
\* a vector returned with one unit's scale, and another unit set since
C22_Witness ==
    /\ returned.valid
    /\ m_unit = "Gauss"
    /\ m_unit_scale = Rat(1, 100000)
    /\ returned.scale = Rat(1, 1000)
    /\ m_model.type = "Interpolated"

\* ------------------------------------------------------------------ C23
\* the line read last is an epoch row or a coefficient row
DataRow == getModelFileRowType(line) \in {"Epoch", "GCoeffecient", "HCoeffecient"}
\* ... and holds a token that is no number in one of the value columns
HasSkippedToken == \E k \in 4..Len(line.tokens) : line.tokens[k] = Word
\* C23 as stated: when an epoch row or a coefficient row holds a non-numeric
\* token in a value column and parsing has gone on past the row without an
\* error, every other value of the row is stored in the snapshot of its own
\* column (the value in column 3 + k in snapshot k).
C23_SkippedTokenKeepsColumns ==
    (DataRow /\ HasSkippedToken /\ is_state \in {"good", "eof"}) =>
        \A j \in 1..Len(written) : written[j].model = written[j].colum - 3

\* ------------------------------------------------------------------ C27
\* the tokens of an epoch row that are given to a snapshot
AcceptedEpochs(tokens) == SelectSeq(tokens, LAMBDA elm : Length(elm) >= 6 /\ ~Throws(elm))
\* the year the claim gives for a token: the digits before the fraction, or
\* the part before the hyphen with its last digits replaced by the part
\* after it
ClaimedYear(elm) ==
    IF elm.form = "range"
    THEN DigitsValue(SubSeq(elm.lower, 1, Len(elm.lower) - Len(elm.upper)) \o elm.upper)
    ELSE DigitsValue(elm.digits)
\* C27: after an epoch row, the k-th snapshot created by the header row has
\* the epoch of the k-th accepted token of the row: 1 January of the year
\* yyyy of a token yyyy.y, and for a range token 1 January of the year got by
\* replacing the last digits of the part before the hyphen with the part
\* after it (2020-25 gives 2025).
C27_EpochTokens ==
    getModelFileRowType(line) = "Epoch" =>
        \A k \in 1..Len(AcceptedEpochs(line.tokens)) :
            k <= Len(m_models) =>
                /\ m_models[k].epoch = ClaimedYear(AcceptedEpochs(line.tokens)[k]) * TicksPerYear
                /\ year(m_models[k].epoch) = ClaimedYear(AcceptedEpochs(line.tokens)[k])
                /\ written[k].model = k - 1
C27_Witness ==
    /\ is_state = "good"
    /\ getModelFileRowType(line) = "Epoch"
    /\ Len(m_models) = 2
    /\ AcceptedEpochs(line.tokens) = <<Plain(<<2, 0, 2, 0>>, TRUE), Range(<<2, 0, 2, 0>>, <<2, 5>>)>>
    /\ year(m_models[1].epoch) = 2020
    /\ year(m_models[2].epoch) = 2025
    /\ m_models[2].type = "Sv"

\* ------------------------------------------------------------------ C29
\* C29 as stated: whatever the stream holds (an epoch row or a coefficient
\* row before the header row, more accepted values than snapshots, more
\* coefficient rows than the array holds), no write of read goes outside the
\* table: the parser is never in a state where one did.
C29_WritesInsideTable == is_state \notin {"corrupted", "crash"}

\* ------------------------------------------------------------------ C24
\* C24: for a Wgs84 position on the equator (geodetic latitude 0) at height
\* 0 the normalizer gives cos(delta) = 1 and sin(delta) = 0, the geocentric
\* radius r = a, the semi-major axis, and the cosine and sine of the
\* colatitude as they were (0 and 1).
C24_EquatorIdentity ==
    (/\ frame.pc \in {"loop", "done"}
     /\ frame.position.type = "Wgs84"
     /\ frame.position.latitude = Equator
     /\ IsZero(frame.position.altitude)) =>
        /\ frame.cos_delta = RInt(1)
        /\ frame.sin_delta = RInt(0)
        /\ frame.r = wgs84_a
        /\ frame.cos_theta = frame.position.latitude.sin
        /\ frame.sin_theta = frame.position.latitude.cos
        /\ frame.cos_theta = RInt(0)
        /\ frame.sin_theta = RInt(1)
C24_Witness ==
    /\ frame.pc = "done"
    /\ frame.position.type = "Wgs84"
    /\ frame.position.latitude = Equator
    /\ IsZero(frame.position.altitude)
    /\ frame.r = wgs84_a
    /\ wgs84_a # wgs84_b

\* ------------------------------------------------------------------ C25
\* the iterations the loop has made so far
Terms == frame.terms
InLoop == frame.pc \in {"loop", "done"}
\* the packed coefficients: n_max*(n_max + 2) of them
PackedIdx == 0..(max_degree * (max_degree + 2) - 1)
\* C25: the iteration for (n, m), 1 <= n <= n_max, 0 <= m <= n, reads for
\* m = 0 exactly the coefficient at n*n - 1 and leaves Bphi alone, and for
\* m >= 1 reads g at n*n + 2*m - 2 and h at n*n + 2*m - 1; when the loop has
\* ended every (n, m) has had its iteration and each packed index has been
\* read by exactly one of them.
C25_CanonicalPacking ==
    InLoop =>
        /\ \A k \in 1..Len(Terms) :
              LET t == Terms[k]
              IN  /\ t.n \in 1..max_degree
                  /\ t.m \in 0..t.n
                  /\ t.c_idx - 1 = FirstRead(t)
                  /\ t.m = 0 =>
                        /\ t.reads = {t.n * t.n - 1}
                        /\ t.branch = "none"
                        /\ t.b_p = BpBefore(k)
                  /\ t.m >= 1 =>
                        /\ t.reads = {t.n * t.n + 2 * t.m - 2, t.n * t.n + 2 * t.m - 1}
                        /\ t.branch # "none"
        /\ frame.pc = "done" =>
              /\ \A n \in 1..max_degree : \A m \in 0..n :
                    Cardinality({k \in 1..Len(Terms) : Terms[k].n = n /\ Terms[k].m = m}) = 1
              /\ \A c \in PackedIdx :
                    Cardinality({k \in 1..Len(Terms) : c \in Terms[k].reads}) = 1
C25_Witness ==
    /\ frame.pc = "done"
    /\ \E k \in 1..Len(Terms) :
          /\ Terms[k].n = max_degree
          /\ Terms[k].m = max_degree
          /\ Terms[k].reads = {max_degree * (max_degree + 2) - 2, max_degree * (max_degree + 2) - 1}
    /\ \E k \in 1..Len(Terms) : Terms[k].n = max_degree /\ Terms[k].m = 0
    /\ ~IsZero(frame.b_p)
    /\ IsFinite(frame.b_p)

\* ------------------------------------------------------------------ C26
RECURSIVE Pow(_, _)
Pow(x, k) == IF k = 0 THEN RInt(1) ELSE RMul(Pow(x, k - 1), x)
\* a_earth / r
RadiusRatio == RDiv(RInt(earth_radius), frame.r)
\* C26: in the iteration of a term of degree n ratio is (a_earth/r)^(n+2):
\* the first iteration has (a_earth/r)^3 for n = 1, and from one iteration
\* to the next ratio is multiplied by a_earth/r when n has gone up and is
\* left alone when only m has.
C26_RatioPower ==
    InLoop =>
        \A k \in 1..Len(Terms) :
            /\ Terms[k].ratio = Pow(RadiusRatio, Terms[k].n + 2)
            /\ k = 1 => Terms[k].ratio = RMul(RMul(RadiusRatio, RadiusRatio), RadiusRatio)
            /\ k > 1 =>
                  Terms[k].ratio =
                      IF Terms[k].n = Terms[k - 1].n
                      THEN Terms[k - 1].ratio
                      ELSE RMul(Terms[k - 1].ratio, RadiusRatio)
C26_Witness ==
    /\ frame.pc = "done"
    /\ frame.r = RInt(2)
    /\ \E k \in 2..Len(Terms) :
          /\ Terms[k].n = 2
          /\ Terms[k].m = 2
          /\ Terms[k].ratio = Rat(1, 16)
          /\ Terms[k - 1].ratio = Rat(1, 16)

\* ------------------------------------------------------------------ C28
\* the packed index of P[n,m]
Packed(n, m) == (n * (n + 1)) \div 2 + m
\* C28: the loop makes one iteration for every (n, m), 1 <= n <= n_max,
\* 0 <= m <= n, in the order of n and then m, and then ends; the entry of
\* the k-th iteration is n(n+1)/2 + m = k, the off-diagonal step reads
\* (n-1, m) and the place of (n-2, m), the latter with a factor 0 when
\* m = n - 1, the diagonal step reads (n-1, n-1), and all indices are inside
\* their arrays: Legendre 0..p_size-1, coefficients 0..n_max(n_max+2)-1,
\* cos/sin(m*phi) 0..n_max-1.
C28_LoopVisits ==
    InLoop =>
        /\ Len(Terms) = frame.p_idx - 2
        /\ frame.p_idx <= p_size + 1
        /\ frame.pc = "done" => Len(Terms) = p_size - 1
        /\ \A k \in 1..Len(Terms) :
              LET t == Terms[k]
              IN  /\ t.n \in 1..max_degree
                  /\ t.m \in 0..t.n
                  /\ t.p_idx = k + 1
                  /\ t.p_lag0 = k
                  /\ t.p_lag0 = Packed(t.n, t.m)
                  /\ t.p_lag0 \in PIdx
                  /\ t.written = (t.p_lag0 # 2)
                  /\ (t.written /\ t.n = t.m) => t.lags = <<Packed(t.n - 1, t.n - 1)>>
                  /\ (t.written /\ t.n # t.m) =>
                        /\ t.lags = <<Packed(t.n - 1, t.m), Packed(t.n - 2, t.m)>>
                        /\ t.m = t.n - 1 =>
                              IsZero(RSqrt(RInt((t.n - 1) * (t.n - 1) - t.m * t.m)))
                  /\ \A i \in 1..Len(t.lags) : t.lags[i] \in PIdx /\ t.lags[i] < t.p_lag0
                  /\ t.reads \subseteq PackedIdx
                  /\ t.m >= 1 => (t.m - 1) \in 0..(max_degree - 1)
C28_Witness ==
    /\ frame.pc = "done"
    /\ Len(Terms) = p_size - 1
    /\ Terms[Len(Terms)].n = max_degree
    /\ Terms[Len(Terms)].m = max_degree
    /\ Terms[Len(Terms)].lags = <<Packed(max_degree - 1, max_degree - 1)>>
    /\ Terms[Len(Terms) - 1].lags = <<Packed(max_degree - 1, max_degree - 1),
                                      Packed(max_degree - 2, max_degree - 1)>>

\* ------------------------------------------------------------------ C30
\* the query epoch lies after every Definitive/Predictive snapshot of the
\* table and not after its SecularVariation snapshot
InSvInterval ==
    /\ \A i \in 1..Size : m_models[i].type # "Sv" => m_models[i].epoch < epoch
    /\ \E i \in 1..Size : m_models[i].type = "Sv" /\ epoch <= m_models[i].epoch
\* C30: after a query that succeeds on a table satisfying the table
\* invariant, the lower model select returned is not the SecularVariation
\* snapshot, an interpolated working model was blended from two snapshots
\* neither of which is a SecularVariation snapshot, an extrapolated one has
\* the SecularVariation snapshot (the final entry) as upper, and the working
\* model is tagged Extrapolated exactly when the query epoch lies after the
\* last Definitive/Predictive snapshot and not after the SecularVariation
\* snapshot.
C30_SvOnlyUpperOfExtrapolation ==
    (outcome = "ok" /\ TableInvariant(m_models)) =>
        /\ sel.it >= 1 => (sel.last = m_models[sel.it] /\ sel.last.type # "Sv")
        /\ \A i \in 1..Size : m_models[i].type = "Sv" => sel.last # m_models[i]
        /\ m_model.type \in {"Interpolated", "Extrapolated"}
        /\ m_model.type = "Interpolated" => sel.next.type # "Sv"
        /\ m_model.type = "Extrapolated" =>
              /\ sel.next = m_models[Size]
              /\ sel.next.type = "Sv"
              /\ m_model.coefficients = extrapolateModel(epoch, sel.last, sel.next, m_model).coefficients
        /\ (m_model.type = "Extrapolated") = InSvInterval
C30_Witness ==
    /\ outcome = "ok"
    /\ TableInvariant(m_models)
    /\ Size = MaxLen
    /\ sel.it >= 1
    /\ m_model.type = "Extrapolated"
    /\ InSvInterval
    /\ sel.last = m_models[Size - 1]

====
